---- MODULE Spec2Model ----
\* A model of the interactive chat client of src/main.go: the session loop of
\* main, the Conversation it owns, the transcript file it rewrites on every
\* save, and the two remote gateways (chat completion, image generation),
\* whose results are inputs chosen by the environment.
EXTENDS Integers, Sequences, FiniteSets, TLC

\* ---- bounds of the model ----
\* the number of terminal lines that are accepted as a user turn
MaxTurns == 2
\* the number of seconds the wall clock may advance during a session
MaxClock == 1

\* ---- program constants (src/main.go:33-38); a Go string is modelled as
\* the sequence of its characters ----

chatsDir ==
    <<"c", "h", "a", "t", "s">>

imagesDir ==
    <<"i", "m", "a", "g", "e", "s">>

systemPrompt ==
    <<"D", "u", " ", "e", "r", " ", "e", "n", " ", "f", "r", "e", "k", "k",
      ",", " ", "u", "b", "e", "h", "ø", "v", "l", "e", "t", ",", " ", "a",
      "v", "d", "a", "n", "k", "a", " ", "j", "o", "u", "r", "n", "a", "l",
      "i", "s", "t", " ", "s", "o", "m", " ", "s", "v", "a", "r", "e", "r",
      " ", "m", "e", "d", " ", "e", "n", " ", "s", "y", "r", "l", "i", "g",
      " ", "t", "o", "n", "e", ".", " ", "D", "u", " ", "s", "k", "a", "l",
      " ", "i", "k", "k", "e", " ", "v", "æ", "r", "e", " ", "h", "j", "e",
      "l", "p", "s", "m", " ", "e", "l", "l", "e", "r", " ", "h", "ø", "f",
      "l", "i", "g", " ", "s", "e", "l", "v", " ", "o", "m", " ", "j", "e",
      "g", " ", "b", "e", "r", " ", "o", "m", " ", "d", "e", "t", ".">>

\* the image-trigger keyword, src/main.go:88 and :182
keyword ==
    <<"v", "i", "s", "u", "a", "l", "i", "s", "e", "r">>

\* fmt.Sprintf("chat_%d", ...), src/main.go:138
ChatPrefix ==
    <<"c", "h", "a", "t", "_">>

\* src/main.go:158
XmlExt ==
    <<".", "x", "m", "l">>

\* fmt.Sprintf("img_%d.png", ...), src/main.go:230
ImgPrefix ==
    <<"i", "m", "g", "_">>

PngExt ==
    <<".", "p", "n", "g">>

\* fmt.Sprintf("Generated image: %s", imagePath), src/main.go:97
GeneratedPrefix ==
    <<"G", "e", "n", "e", "r", "a", "t", "e", "d", " ", "i", "m", "a", "g",
      "e", ":", " ">>

\* the exit keywords, src/main.go:81
ExitWord ==
    <<"e", "x", "i", "t">>

QuitWord ==
    <<"q", "u", "i", "t">>

\* ---- character tables used by strings.ToLower and strconv ----

Upper ==
    <<"A", "B", "C", "D", "E", "F", "G", "H", "I", "J", "K", "L", "M", "N",
      "O", "P", "Q", "R", "S", "T", "U", "V", "W", "X", "Y", "Z">>

Lower ==
    <<"a", "b", "c", "d", "e", "f", "g", "h", "i", "j", "k", "l", "m", "n",
      "o", "p", "q", "r", "s", "t", "u", "v", "w", "x", "y", "z">>

Digits ==
    <<"0", "1", "2", "3", "4", "5", "6", "7", "8", "9">>

\* ---- the terminal lines and the gateway reply the environment may supply ----

\* begins with an exit word and holds the keyword in mixed case
LineCat ==
    <<"e", "x", "i", "t", " ", "V", "i", "s", "u", "a", "l", "i", "s", "e", "r",
      " ", "a", " ", "c", "a", "t">>

LineEmpty ==
    <<>>

LineBlank ==
    <<" ", " ">>

LineExit ==
    <<"e", "x", "i", "t">>

LineQuit ==
    <<"q", "u", "i", "t">>

LineExitCap ==
    <<" ", "E", "x", "i", "t", " ">>

LinePadExit ==
    <<" ", "e", "x", "i", "t", " ">>

ReplyKeyword ==
    <<"V", "i", "s", "u", "a", "l", "i", "s", "e", "r", " ", "i", "t">>

Lines ==
    {LineCat, LineEmpty, LineBlank, LineExit, LineQuit, LinePadExit,
     LineExitCap}

Replies == {ReplyKeyword}

\* ---- library functions, modelled by what they compute ----

\* strings.ToLower on one character
ToLowerChar(c) ==
    IF \E i \in 1..Len(Upper) : Upper[i] = c
    THEN Lower[CHOOSE i \in 1..Len(Upper) : Upper[i] = c]
    ELSE c

\* strings.ToLower
ToLower(s) == [i \in 1..Len(s) |-> ToLowerChar(s[i])]

\* strings.Contains
Contains(s, substr) ==
    \E i \in 0..(Len(s) - Len(substr)) : SubSeq(s, i + 1, i + Len(substr)) = substr

IsSpace(c) == c \in {" ", "\t", "\n", "\r"}

RECURSIVE TrimLeft(_)
TrimLeft(s) ==
    IF s # <<>> /\ IsSpace(Head(s)) THEN TrimLeft(Tail(s)) ELSE s

RECURSIVE TrimRight(_)
TrimRight(s) ==
    IF s # <<>> /\ IsSpace(s[Len(s)]) THEN TrimRight(SubSeq(s, 1, Len(s) - 1)) ELSE s

\* strings.TrimSpace
TrimSpaceNone(s) == s

TrimSpace(s) == TrimRight(TrimLeft(s))

\* the %d verb of fmt.Sprintf on a non-negative integer
RECURSIVE Itoa(_)
Itoa(n) ==
    IF n < 10 THEN <<Digits[n + 1]>>
    ELSE Itoa(n \div 10) \o <<Digits[(n % 10) + 1]>>

\* filepath.Join of a directory and a file name
Join(dir, name) == dir \o <<"/">> \o name

\* ---- the Conversation (src/main.go:20-31, 135-159) ----

\* the value of conv before newConversation has run
NoConversation == [ID |-> <<>>, CreatedAt |-> 0, Messages |-> <<>>]

\* an addMessage that puts the new message in front
addMessagePrepending(c, role, content, t) ==
    [c EXCEPT !.Messages =
        <<[Role |-> role, Content |-> content, Timestamp |-> t]>> \o @]

\* Conversation.addMessage; t is time.Now() at second resolution
addMessage(c, role, content, t) ==
    [c EXCEPT !.Messages =
        Append(@, [Role |-> role, Content |-> content, Timestamp |-> t])]

\* a newConversation that seeds no system message
newConversationUnseeded(t) ==
    [ID |-> ChatPrefix \o Itoa(t), CreatedAt |-> t, Messages |-> <<>>]

\* newConversation; t is time.Now()
newConversation(t) ==
    addMessage([ID |-> ChatPrefix \o Itoa(t), CreatedAt |-> t, Messages |-> <<>>],
               "system", systemPrompt, t)

\* a path that changes with the number of messages
getFilePathPerLength(c) == Join(chatsDir, c.ID \o Itoa(Len(c.Messages)) \o XmlExt)

\* Conversation.getFilePath
getFilePath(c) == Join(chatsDir, c.ID \o XmlExt)

\* ---- the transcript file (Conversation.save, src/main.go:161-176) ----

SaveResults == {"ok", "createFailed", "encodeFailed"}

\* what xml.Encoder.Encode writes for c: the whole document
Document(c) ==
    [complete |-> TRUE, id |-> c.ID, created_at |-> c.CreatedAt, messages |-> c.Messages]

\* how many whole messages a write that stops with an error may have written:
\* none, or all but the last
WrittenBeforeError(c) == {0, Len(c.Messages) - 1}

\* what is left of the document when the write stops after k whole messages
Truncated(c, k) ==
    [complete |-> FALSE, id |-> c.ID, created_at |-> c.CreatedAt,
     messages |-> SubSeq(c.Messages, 1, k)]

\* a save that opens the file for appending: what is written follows what
\* the file held
saveAppending(c, fs, result, k) ==
    LET path == getFilePath(c)
        held == IF path \in DOMAIN fs THEN fs[path].messages ELSE <<>>
    IN  CASE result = "createFailed" -> fs
          [] result = "encodeFailed" ->
                (path :> [Truncated(c, k) EXCEPT !.messages = held \o @]) @@ fs
          [] OTHER ->
                (path :> [Document(c) EXCEPT !.messages = held \o @]) @@ fs

\* the files after c.save() with the given result: os.Create fails and leaves
\* the files alone, or it empties the file, and Encode then writes the whole
\* document or stops with an error after k messages
save(c, fs, result, k) ==
    CASE result = "createFailed" -> fs
      [] result = "encodeFailed" -> (getFilePath(c) :> Truncated(c, k)) @@ fs
      [] OTHER                   -> (getFilePath(c) :> Document(c)) @@ fs

\* ---- state ----

VARIABLES
    pc,        \* the position of main
    conv,      \* the Conversation
    files,     \* the file system: path -> content, for the files that exist
    now,       \* the wall clock, in seconds
    out,       \* what the most recent step printed
    accepted,  \* the lines accepted as a user turn so far, trimmed, in order
    scanned,   \* what the latest scanner.Scan() delivered
    scanErr,   \* scanner.Err() # nil
    exitCode,  \* the exit status; -1 while the process runs
    lastCall,  \* the latest gateway call for the latest accepted line, and how
               \* many calls were made for that line
    lastSave,  \* the latest call of save since the latest accepted line
    saveCount, \* the number of calls of save
    history    \* whether a save / a gateway call has failed so far

vars == <<pc, conv, files, now, out, accepted, scanned, scanErr, exitCode,
          lastCall, lastSave, saveCount, history>>

Say(tag, arg) == [tag |-> tag, arg |-> arg]

NoInput == [kind |-> "none", text |-> <<>>]
NoCall ==
    [gateway |-> "none", input |-> <<>>, seen |-> <<>>, result |-> "none", count |-> 0]
NoSave == [result |-> "none", messages |-> <<>>, at |-> "none"]

\* time.Now() does not go back. The clock is read by addMessage and by
\* generateImage; it is let advance while main waits for the line of a turn,
\* and the calls of one turn fall into the same second.
Later(t) == {u \in {t, t + 1} : u <= MaxClock}

Init ==
    /\ pc = "start"
    /\ conv = NoConversation
    /\ files = <<>>
    /\ now = 0
    /\ out = <<>>
    /\ accepted = <<>>
    /\ scanned = NoInput
    /\ scanErr = FALSE
    /\ exitCode = -1
    /\ lastCall = NoCall
    /\ lastSave = NoSave
    /\ saveCount = 0
    /\ history = [saveFailed |-> FALSE, gatewayFailed |-> FALSE]

\* main up to the loop (src/main.go:40-68): the credential, the two
\* directories, the conversation
StartupResults == {"ok", "noKey", "chatsDirFailed", "imagesDirFailed"}

\* a start of main that builds the conversation before its checks
StartupConversationFirst ==
    /\ pc = "start"
    /\ conv' = newConversation(now)
    /\ \E r \in StartupResults :
         IF r = "ok"
         THEN /\ out' = <<Say("banner", <<>>)>>
              /\ pc' = "read"
              /\ exitCode' = exitCode
         ELSE /\ out' = <<Say(r, <<>>)>>
              /\ pc' = "done"
              /\ exitCode' = 1
    /\ UNCHANGED <<files, now, accepted, scanErr, scanned, lastCall, lastSave, saveCount, history>>

Startup ==
    /\ pc = "start"
    /\ \E r \in StartupResults :
         IF r = "ok"
         THEN /\ conv' = newConversation(now)
              /\ out' = <<Say("banner", <<>>)>>
              /\ pc' = "read"
              /\ exitCode' = exitCode
         ELSE /\ out' = <<Say(r, <<>>)>>
              /\ pc' = "done"
              /\ exitCode' = 1
              /\ conv' = conv
    /\ UNCHANGED <<files, now, accepted, scanErr, scanned, lastCall, lastSave, saveCount, history>>

\* one terminal read and what follows it up to the next blocking call
\* (src/main.go:71-89)
Inputs ==
    [kind : {"line"}, text : Lines] \cup [kind : {"eof", "readError"}, text : {<<>>}]

\* a trigger test that takes the keyword in lower case only
IsTriggerCaseSensitive(s) == Contains(s, keyword)

IsTrigger(s) == Contains(ToLower(s), keyword)

\* a terminal read that takes the exit words in any letter-case
ReadLineFoldingCase ==
    /\ pc = "read"
    /\ \E in \in Inputs :
         LET userInput == TrimSpace(in.text)
             prompt == <<Say("prompt", <<>>)>>
         IN
         /\ scanned' = in
         /\ IF in.kind # "line"
             THEN /\ pc' = "final"
                  /\ scanErr' = (in.kind = "readError")
                  /\ out' = prompt
                  /\ UNCHANGED <<conv, accepted, now, lastCall, lastSave>>
             ELSE IF userInput = <<>>
             THEN /\ pc' = "read"
                  /\ out' = prompt
                  /\ UNCHANGED <<conv, accepted, scanErr, now, lastCall, lastSave>>
             ELSE IF ToLower(userInput) = ExitWord \/ ToLower(userInput) = QuitWord
             THEN /\ pc' = "final"
                  /\ out' = prompt \o <<Say("exiting", <<>>)>>
                  /\ UNCHANGED <<conv, accepted, scanErr, now, lastCall, lastSave>>
             ELSE /\ Len(accepted) < MaxTurns
                  /\ accepted' = Append(accepted, userInput)
                  /\ lastCall' = NoCall
                  /\ lastSave' = NoSave
                  /\ \E t \in Later(now) :
                       /\ now' = t
                       /\ conv' = addMessage(conv, "user", userInput, t)
                  /\ IF IsTrigger(userInput)
                     THEN /\ pc' = "image"
                          /\ out' = prompt \o <<Say("generating", <<>>)>>
                     ELSE /\ pc' = "saveUser"
                          /\ out' = prompt
                  /\ UNCHANGED scanErr
    /\ UNCHANGED <<files, exitCode, saveCount, history>>

\* the terminal read of main
ReadLine ==
    /\ pc = "read"
    /\ \E in \in Inputs :
         LET userInput == TrimSpace(in.text)
             prompt == <<Say("prompt", <<>>)>>
         IN
         /\ scanned' = in
         /\ IF in.kind # "line"
             THEN /\ pc' = "final"
                  /\ scanErr' = (in.kind = "readError")
                  /\ out' = prompt
                  /\ UNCHANGED <<conv, accepted, now, lastCall, lastSave>>
             ELSE IF userInput = <<>>
             THEN /\ pc' = "read"
                  /\ out' = prompt
                  /\ UNCHANGED <<conv, accepted, scanErr, now, lastCall, lastSave>>
             ELSE IF userInput = ExitWord \/ userInput = QuitWord
             THEN /\ pc' = "final"
                  /\ out' = prompt \o <<Say("exiting", <<>>)>>
                  /\ UNCHANGED <<conv, accepted, scanErr, now, lastCall, lastSave>>
             ELSE /\ Len(accepted) < MaxTurns
                  /\ accepted' = Append(accepted, userInput)
                  /\ lastCall' = NoCall
                  /\ lastSave' = NoSave
                  /\ \E t \in Later(now) :
                       /\ now' = t
                       /\ conv' = addMessage(conv, "user", userInput, t)
                  /\ IF IsTrigger(userInput)
                     THEN /\ pc' = "image"
                          /\ out' = prompt \o <<Say("generating", <<>>)>>
                     ELSE /\ pc' = "saveUser"
                          /\ out' = prompt
                  /\ UNCHANGED scanErr
    /\ UNCHANGED <<files, exitCode, saveCount, history>>

\* a save in the loop whose failure ends the process, as the final one does
SaveStepFatal(at, next) ==
    /\ pc = at
    /\ \E r \in SaveResults, k \in WrittenBeforeError(conv) :
         /\ r # "encodeFailed" => k = 0
         /\ files' = save(conv, files, r, k)
         /\ lastSave' = [result |-> r, messages |-> conv.Messages, at |-> at]
         /\ history' = [history EXCEPT !.saveFailed = @ \/ r # "ok"]
         /\ out' = IF r = "ok" THEN <<>> ELSE <<Say("saveError", <<>>)>>
         /\ pc' = IF r = "ok" THEN next ELSE "done"
         /\ exitCode' = IF r = "ok" THEN exitCode ELSE 1
    /\ saveCount' = saveCount + 1
    /\ UNCHANGED <<conv, now, accepted, scanErr, scanned, lastCall>>

\* one call of conv.save() in the loop and the warning it may print; the
\* loop goes on at `next` whatever the result
SaveStep(at, next) ==
    /\ pc = at
    /\ \E r \in SaveResults, k \in WrittenBeforeError(conv) :
         /\ r # "encodeFailed" => k = 0
         /\ files' = save(conv, files, r, k)
         /\ lastSave' = [result |-> r, messages |-> conv.Messages, at |-> at]
         /\ history' = [history EXCEPT !.saveFailed = @ \/ r # "ok"]
         /\ out' = IF r = "ok" THEN <<>> ELSE <<Say("saveWarning", <<>>)>>
    /\ saveCount' = saveCount + 1
    /\ pc' = next
    /\ UNCHANGED <<conv, now, accepted, scanErr, scanned, exitCode, lastCall>>

\* src/main.go:104-106
SaveUser == SaveStep("saveUser", "complete")

\* src/main.go:118-120
SaveReply == SaveStep("saveReply", "read")

\* src/main.go:98-101
SaveImage == SaveStep("saveImage", "read")

\* a loop that hands over every message, keyword or not
RECURSIVE buildMessagesUnfiltered(_)
buildMessagesUnfiltered(msgs) ==
    IF msgs = <<>> THEN <<>>
    ELSE LET msg == Head(msgs)
             rest == buildMessagesUnfiltered(Tail(msgs))
         IN  IF msg.Role \in {"system", "user", "assistant"}
             THEN <<[role |-> msg.Role, content |-> msg.Content]>> \o rest
             ELSE rest

\* a context that leaves out every user message another user message follows
buildMessagesAnswered(msgs) ==
    LET keep(i) == /\ ~(msgs[i].Role = "user" /\ Contains(ToLower(msgs[i].Content), keyword))
                   /\ ~(i < Len(msgs) /\ msgs[i].Role = "user" /\ msgs[i + 1].Role = "user")
        idx == SelectSeq([i \in 1..Len(msgs) |-> i], keep)
    IN  [n \in 1..Len(idx) |-> [role |-> msgs[idx[n]].Role, content |-> msgs[idx[n]].Content]]

\* a context that holds the history without the message of the current turn
buildMessagesHistoryOnly(msgs) ==
    LET keep(i) == /\ ~(msgs[i].Role = "user" /\ Contains(ToLower(msgs[i].Content), keyword))
                   /\ i < Len(msgs)
        idx == SelectSeq([i \in 1..Len(msgs) |-> i], keep)
    IN  [n \in 1..Len(idx) |-> [role |-> msgs[idx[n]].Role, content |-> msgs[idx[n]].Content]]

\* the loop of callOpenAI (src/main.go:179-193): the messages handed to
\* client.Chat.Completions.New
RECURSIVE buildMessages(_)
buildMessages(msgs) ==
    IF msgs = <<>> THEN <<>>
    ELSE LET msg == Head(msgs)
             rest == buildMessages(Tail(msgs))
         IN  IF msg.Role = "user" /\ Contains(ToLower(msg.Content), keyword)
             THEN rest
             ELSE IF msg.Role \in {"system", "user", "assistant"}
             THEN <<[role |-> msg.Role, content |-> msg.Content]>> \o rest
             ELSE rest

CompletionResults == {"ok", "error", "noChoices"}

\* a text turn that records the reply under the role of the user
CompleteAsUser ==
    /\ pc = "complete"
    /\ \E r \in CompletionResults :
         /\ lastCall' = [gateway |-> "completion", input |-> buildMessages(conv.Messages),
                         seen |-> conv.Messages, result |-> r,
                         count |-> lastCall.count + 1]
         /\ IF r = "ok"
            THEN \E response \in Replies :
                 /\ out' = <<Say("assistant", response)>>
                 /\ conv' = addMessage(conv, "user", response, now)
                 /\ pc' = "saveReply"
                 /\ history' = history
            ELSE /\ out' = <<Say("error", <<>>)>>
                 /\ conv' = conv
                 /\ pc' = "read"
                 /\ history' = [history EXCEPT !.gatewayFailed = TRUE]
    /\ UNCHANGED <<files, now, accepted, scanErr, scanned, exitCode, lastSave, saveCount>>

\* callOpenAI and the rest of the text turn up to the save
\* (src/main.go:108-116, 178-208)
Complete ==
    /\ pc = "complete"
    /\ \E r \in CompletionResults :
         /\ lastCall' = [gateway |-> "completion", input |-> buildMessages(conv.Messages),
                         seen |-> conv.Messages, result |-> r,
                         count |-> lastCall.count + 1]
         /\ IF r = "ok"
            THEN \E response \in Replies :
                 /\ out' = <<Say("assistant", response)>>
                 /\ conv' = addMessage(conv, "assistant", response, now)
                 /\ pc' = "saveReply"
                 /\ history' = history
            ELSE /\ out' = <<Say("error", <<>>)>>
                 /\ conv' = conv
                 /\ pc' = "read"
                 /\ history' = [history EXCEPT !.gatewayFailed = TRUE]
    /\ UNCHANGED <<files, now, accepted, scanErr, scanned, exitCode, lastSave, saveCount>>

ImageResults == {"ok", "error", "noData", "badBase64", "writeFailed"}

\* the bytes os.WriteFile stores
ImageFile == [complete |-> TRUE, id |-> <<>>, created_at |-> 0, messages |-> <<>>]

\* a file name without its directory
imagePathBare(t) == ImgPrefix \o Itoa(t) \o PngExt

\* the path generateImage builds (src/main.go:230-231); t is time.Now().Unix()
imagePathAt(t) == Join(imagesDir, ImgPrefix \o Itoa(t) \o PngExt)

\* an image turn that leaves the loop when generateImage fails
GenerateImageBreaking ==
    /\ pc = "image"
    /\ \E r \in ImageResults :
         LET userInput == conv.Messages[Len(conv.Messages)].Content IN
         /\ lastCall' = [gateway |-> "image", input |-> userInput,
                         seen |-> conv.Messages, result |-> r,
                         count |-> lastCall.count + 1]
         /\ IF r = "ok"
            THEN \E opened \in BOOLEAN :
                 LET imagePath == imagePathAt(now)
                 IN  /\ files' = (imagePath :> ImageFile) @@ files
                     /\ out' = <<Say("imageSaved", imagePath)>>
                                   \o (IF opened THEN <<>> ELSE <<Say("openFailed", <<>>)>>)
                     /\ conv' = addMessage(conv, "assistant", GeneratedPrefix \o imagePath, now)
                     /\ pc' = "saveImage"
                     /\ history' = history
            ELSE /\ out' = <<Say("imageError", <<>>)>>
                 /\ pc' = "final"
                 /\ history' = [history EXCEPT !.gatewayFailed = TRUE]
                 /\ UNCHANGED <<files, conv>>
    /\ UNCHANGED <<now, accepted, scanErr, scanned, exitCode, lastSave, saveCount>>

\* generateImage and the rest of the image turn up to the save
\* (src/main.go:90-97, 210-255)
GenerateImage ==
    /\ pc = "image"
    /\ \E r \in ImageResults :
         LET userInput == conv.Messages[Len(conv.Messages)].Content IN
         /\ lastCall' = [gateway |-> "image", input |-> userInput,
                         seen |-> conv.Messages, result |-> r,
                         count |-> lastCall.count + 1]
         /\ IF r = "ok"
            THEN \E opened \in BOOLEAN :
                 LET imagePath == imagePathAt(now)
                 IN  /\ files' = (imagePath :> ImageFile) @@ files
                     /\ out' = <<Say("imageSaved", imagePath)>>
                                   \o (IF opened THEN <<>> ELSE <<Say("openFailed", <<>>)>>)
                     /\ conv' = addMessage(conv, "assistant", GeneratedPrefix \o imagePath, now)
                     /\ pc' = "saveImage"
                     /\ history' = history
            ELSE /\ out' = <<Say("imageError", <<>>)>>
                 /\ pc' = "read"
                 /\ history' = [history EXCEPT !.gatewayFailed = TRUE]
                 /\ UNCHANGED <<files, conv>>
    /\ UNCHANGED <<now, accepted, scanErr, scanned, exitCode, lastSave, saveCount>>

\* an end of main that saves only what no save of the loop has written yet
FinalSaveIfUnsaved ==
    /\ pc = "final"
    /\ IF lastSave.result = "ok" /\ lastSave.messages = conv.Messages
       THEN /\ out' = (IF scanErr THEN <<Say("readError", <<>>)>> ELSE <<>>)
                      \o <<Say("savedTo", getFilePath(conv))>>
            /\ exitCode' = 0
            /\ UNCHANGED <<files, lastSave, history, saveCount>>
       ELSE /\ \E r \in SaveResults, k \in WrittenBeforeError(conv) :
                 /\ r # "encodeFailed" => k = 0
                 /\ files' = save(conv, files, r, k)
                 /\ lastSave' = [result |-> r, messages |-> conv.Messages, at |-> "final"]
                 /\ history' = [history EXCEPT !.saveFailed = @ \/ r # "ok"]
                 /\ out' = (IF scanErr THEN <<Say("readError", <<>>)>> ELSE <<>>)
                           \o (IF r = "ok" THEN <<Say("savedTo", getFilePath(conv))>>
                                           ELSE <<Say("saveError", <<>>)>>)
                 /\ exitCode' = IF r = "ok" THEN 0 ELSE 1
            /\ saveCount' = saveCount + 1
    /\ pc' = "done"
    /\ UNCHANGED <<conv, now, accepted, scanErr, scanned, lastCall>>

\* an end of main that gives up without saving after a read error
FinalSaveUnlessReadError ==
    /\ pc = "final"
    /\ IF scanErr
       THEN /\ out' = <<Say("readError", <<>>)>>
            /\ exitCode' = 1
            /\ UNCHANGED <<files, lastSave, history, saveCount>>
       ELSE /\ \E r \in SaveResults, k \in WrittenBeforeError(conv) :
                 /\ r # "encodeFailed" => k = 0
                 /\ files' = save(conv, files, r, k)
                 /\ lastSave' = [result |-> r, messages |-> conv.Messages, at |-> "final"]
                 /\ history' = [history EXCEPT !.saveFailed = @ \/ r # "ok"]
                 /\ out' = IF r = "ok" THEN <<Say("savedTo", getFilePath(conv))>>
                                       ELSE <<Say("saveError", <<>>)>>
                 /\ exitCode' = IF r = "ok" THEN 0 ELSE 1
            /\ saveCount' = saveCount + 1
    /\ pc' = "done"
    /\ UNCHANGED <<conv, now, accepted, scanErr, scanned, lastCall>>

\* an end of main that tries its save again for as long as it fails
FinalSaveRetrying ==
    /\ pc = "final"
    /\ \E r \in SaveResults, k \in WrittenBeforeError(conv) :
         /\ r # "encodeFailed" => k = 0
         /\ files' = save(conv, files, r, k)
         /\ lastSave' = [result |-> r, messages |-> conv.Messages, at |-> "final"]
         /\ history' = [history EXCEPT !.saveFailed = @ \/ r # "ok"]
         /\ out' = (IF scanErr THEN <<Say("readError", <<>>)>> ELSE <<>>)
                   \o (IF r = "ok" THEN <<Say("savedTo", getFilePath(conv))>>
                                   ELSE <<Say("saveError", <<>>)>>)
         /\ exitCode' = IF r = "ok" THEN 0 ELSE exitCode
         /\ pc' = IF r = "ok" THEN "done" ELSE "final"
         /\ saveCount' = IF lastSave.at = "final" THEN saveCount ELSE saveCount + 1
    /\ UNCHANGED <<conv, now, accepted, scanErr, scanned, lastCall>>

\* main after the loop (src/main.go:123-133)
FinalSave ==
    /\ pc = "final"
    /\ \E r \in SaveResults, k \in WrittenBeforeError(conv) :
         /\ r # "encodeFailed" => k = 0
         /\ files' = save(conv, files, r, k)
         /\ lastSave' = [result |-> r, messages |-> conv.Messages, at |-> "final"]
         /\ history' = [history EXCEPT !.saveFailed = @ \/ r # "ok"]
         /\ out' = (IF scanErr THEN <<Say("readError", <<>>)>> ELSE <<>>)
                   \o (IF r = "ok" THEN <<Say("savedTo", getFilePath(conv))>>
                                   ELSE <<Say("saveError", <<>>)>>)
         /\ exitCode' = IF r = "ok" THEN 0 ELSE 1
    /\ saveCount' = saveCount + 1
    /\ pc' = "done"
    /\ UNCHANGED <<conv, now, accepted, scanErr, scanned, lastCall>>

Next ==
    \/ Startup
    \/ ReadLine
    \/ SaveUser
    \/ Complete
    \/ SaveReply
    \/ GenerateImage
    \/ SaveImage
    \/ FinalSave

Spec == Init /\ [][Next]_vars

\* the calls of main return: the directory and credential checks, each save
\* and each gateway call are blocking calls that come back (src/main.go:48-55,
\* 90, 98, 104, 108, 118, 127)
Returns ==
    Startup \/ SaveUser \/ Complete \/ SaveReply \/ GenerateImage \/ SaveImage \/ FinalSave

\* the terminal ends its input: scanner.Scan comes to return false or to
\* deliver an exit word (src/main.go:72-74, 81-84)
InputEnds == ReadLine /\ pc' = "final"

FairSpec == Spec /\ WF_vars(Returns) /\ SF_vars(InputEnds)

\* ---- what the claims speak of ----

IsPrefix(a, b) == Len(a) <= Len(b) /\ SubSeq(b, 1, Len(a)) = a

\* a session exists once newConversation has run
Started == conv.ID # <<>>

HasTranscript == getFilePath(conv) \in DOMAIN files

Transcript == files[getFilePath(conv)]

\* the keyword occurs in s at offset i, each letter in either case
KeywordAt(s, i) ==
    \A j \in 1..Len(keyword) :
        \E n \in 1..Len(Lower) :
            /\ Lower[n] = keyword[j]
            /\ s[i + j] \in {Lower[n], Upper[n]}

MentionsKeyword(s) == \E i \in 0..(Len(s) - Len(keyword)) : KeywordAt(s, i)

\* a user message that is kept out of the completion context
IsRemoved(m) == m.Role = "user" /\ MentionsKeyword(m.Content)

Pair(m) == [role |-> m.Role, content |-> m.Content]

ExpectedContext(msgs) ==
    LET kept == SelectSeq(msgs, LAMBDA m : ~IsRemoved(m))
    IN  [i \in 1..Len(kept) |-> Pair(kept[i])]

\* C1: whenever the Completion Gateway has been called, what it received is
\* the in-memory list as of the call, in order, less exactly the user
\* messages that mention the keyword in any letter-case; those messages are
\* still in the in-memory list, and in every transcript written afterwards.
C1_ContextIsFilteredHistory ==
    /\ lastCall.gateway = "completion" =>
          /\ lastCall.input = ExpectedContext(lastCall.seen)
          /\ IsPrefix(lastCall.seen, conv.Messages)
    /\ lastSave.result = "ok" =>
          /\ HasTranscript
          /\ \A i \in 1..Len(conv.Messages) :
                (IsRemoved(conv.Messages[i]) /\ i <= Len(lastSave.messages)) =>
                   /\ i <= Len(Transcript.messages)
                   /\ Transcript.messages[i] = conv.Messages[i]

\* a completion call whose history held a keyword message, answered and saved
C1_Witness ==
    /\ lastCall.gateway = "completion"
    /\ lastCall.result = "ok"
    /\ \E i \in 1..Len(lastCall.seen) : IsRemoved(lastCall.seen[i])
    /\ Len(lastCall.input) < Len(lastCall.seen)
    /\ lastSave.result = "ok"
    /\ lastSave.at = "saveReply"

\* the step just taken printed the error of a gateway call
GatewayFailureReported ==
    \E i \in 1..Len(out) : out[i].tag \in {"error", "imageError"}

\* C2: when the loop is about to read a line, a save of the list as it is
\* now has been attempted since the last append; and when a gateway failure
\* is reported, the turn's user message is appended and a save holding it has
\* been attempted.
C2_SaveAfterEveryAppend ==
    /\ (pc = "read" /\ accepted # <<>>) =>
          /\ lastSave.result # "none"
          /\ lastSave.messages = conv.Messages
    /\ GatewayFailureReported =>
          /\ conv.Messages[Len(conv.Messages)].Role = "user"
          /\ conv.Messages[Len(conv.Messages)].Content = accepted[Len(accepted)]
          /\ lastSave.result # "none"
          /\ lastSave.messages = conv.Messages

\* the number of the turn the i-th message belongs to
TurnOf(i) == Cardinality({j \in 1..i : conv.Messages[j].Role = "user"})

\* the messages of the session's turns that a crash now would lose
Unsaved ==
    {i \in 1..Len(conv.Messages) :
        /\ conv.Messages[i].Role # "system"
        /\ ~(HasTranscript /\ Transcript.complete /\ i <= Len(Transcript.messages))}

\* C3: as long as no save has failed, the messages missing from the
\* transcript on disk all belong to the latest turn.
C3_CrashLosesOneTurn ==
    (Started /\ ~history.saveFailed) =>
        \A i \in Unsaved : TurnOf(i) = Len(accepted)

\* C4 as claimed: once the file exists it is a whole transcript that is a
\* prefix of the in-memory list, whatever saves have failed, and after a
\* successful save it equals the list as of that save.
C4_FileIsAlwaysATranscriptPrefix ==
    /\ HasTranscript =>
          /\ Transcript.complete
          /\ IsPrefix(Transcript.messages, conv.Messages)
    /\ lastSave.result = "ok" =>
          /\ HasTranscript
          /\ Transcript.messages = lastSave.messages

\* C4 (amended): once the file exists the messages it holds are a prefix of
\* the in-memory list; right after a successful save it is the whole document
\* of the list as of that save; it is a truncated document only after a save
\* has failed (one that failed after opening the file leaves it truncated).
C4_FileHoldsPrefixOrTruncation ==
    /\ HasTranscript =>
          /\ IsPrefix(Transcript.messages, conv.Messages)
          /\ Transcript.id = conv.ID
          /\ Transcript.created_at = conv.CreatedAt
          /\ ~Transcript.complete => history.saveFailed
    /\ lastSave.result = "ok" =>
          /\ HasTranscript
          /\ Transcript.complete
          /\ Transcript.messages = lastSave.messages
    /\ lastSave.result = "encodeFailed" =>
          /\ HasTranscript
          /\ ~Transcript.complete

\* a save has failed after opening the file, part of the list was written
C4_Witness ==
    /\ lastSave.result = "encodeFailed"
    /\ HasTranscript
    /\ ~Transcript.complete
    /\ Len(Transcript.messages) >= 1
    /\ Len(Transcript.messages) < Len(conv.Messages)

SystemMessages(msgs) == {i \in 1..Len(msgs) : msgs[i].Role = "system"}

\* C6: in memory and in every whole transcript on disk there is exactly one
\* system message, it is the first message and its content is systemPrompt.
C6_OneSystemMessageFirst ==
    /\ Started =>
          /\ SystemMessages(conv.Messages) = {1}
          /\ conv.Messages[1].Content = systemPrompt
    /\ (HasTranscript /\ Transcript.complete) =>
          /\ SystemMessages(Transcript.messages) = {1}
          /\ Transcript.messages[1].Content = systemPrompt

\* a failed turn and an image turn have happened, and the list was saved
C6_Witness ==
    /\ Len(accepted) = 2
    /\ history.gatewayFailed
    /\ lastCall.gateway = "image"
    /\ lastCall.result = "ok"
    /\ lastSave.result = "ok"
    /\ Len(Transcript.messages) = 4

\* C7: every step leaves the old message list as a prefix of the new one
\* (role, content and timestamp of the messages it held included).
C7_AppendOnly == [][IsPrefix(conv.Messages, conv'.Messages)]_vars

\* the list after two whole turns
C7_Witness ==
    /\ Len(conv.Messages) = 5
    /\ conv.Messages[5].Timestamp > conv.Messages[1].Timestamp

\* C8: the step in which a gateway call fails appends nothing, leaves every
\* message as it was, does not end the process, and takes the loop back to
\* the terminal read.
C8_GatewayFailureKeepsSession ==
    [][(lastCall' # lastCall /\ lastCall'.result \notin {"none", "ok"}) =>
          /\ conv' = conv
          /\ pc' = "read"
          /\ exitCode' = -1]_vars

\* the Completion Gateway returned no choice; the user message is the last
C8_Witness ==
    /\ lastCall.gateway = "completion"
    /\ lastCall.result = "noChoices"
    /\ pc = "read"
    /\ Len(accepted) = 2
    /\ conv.Messages[Len(conv.Messages)].Role = "user"
    /\ exitCode = -1

\* C9: a failing save in the loop changes no message, does not end the
\* process and lets the loop go on (after the user message: on to the
\* gateway call); once started, the process ends non-zero only when the final
\* save has failed.
C9_SaveFailureIsNotFatal ==
    /\ [][(/\ saveCount' = saveCount + 1
           /\ lastSave'.result # "ok"
           /\ lastSave'.at # "final") =>
             /\ conv' = conv
             /\ exitCode' = -1
             /\ pc' = IF lastSave'.at = "saveUser" THEN "complete" ELSE "read"]_vars
    /\ []((Started /\ exitCode \notin {-1, 0}) =>
             /\ pc = "done"
             /\ lastSave.at = "final"
             /\ lastSave.result # "ok")

\* the save after the user message failed, the gateway was called all the same
C9_Witness ==
    /\ lastSave.at = "saveUser"
    /\ lastSave.result = "encodeFailed"
    /\ lastCall.gateway = "completion"
    /\ lastCall.result = "ok"
    /\ conv.Messages[Len(conv.Messages)].Role = "assistant"
    /\ exitCode = -1

\* C10: leaving the loop is followed by exactly one more save, and none
\* after it; when that save succeeds, the file is the whole in-memory list
\* and its path is printed.
C10_OneFinalSave ==
    /\ [][/\ pc = "final" =>
               /\ saveCount' = saveCount + 1
               /\ lastSave'.at = "final"
               /\ lastSave'.messages = conv.Messages
               /\ pc' = "done"
          /\ pc = "done" => saveCount' = saveCount]_vars
    /\ []((pc = "done" /\ Started) =>
             /\ lastSave.at = "final"
             /\ lastSave.result = "ok" =>
                   /\ HasTranscript
                   /\ Transcript.complete
                   /\ Transcript.messages = conv.Messages
                   /\ \E i \in 1..Len(out) :
                         out[i] = Say("savedTo", getFilePath(conv))
                   /\ exitCode = 0)

\* the lines " Exit ", "exit Visualiser a cat", "exit", both gateways answering:
\* three saves in the loop, the final one, five messages on disk
C10_Witness ==
    /\ pc = "done"
    /\ lastSave.result = "ok"
    /\ saveCount = 4
    /\ HasTranscript
    /\ Len(Transcript.messages) = 5
    /\ Transcript.messages[2].Role = "user"
    /\ Transcript.messages[2].Content = <<"E", "x", "i", "t">>
    /\ Transcript.messages[3].Role = "assistant"
    /\ Transcript.messages[4].Role = "user"
    /\ MentionsKeyword(Transcript.messages[4].Content)
    /\ Transcript.messages[5].Role = "assistant"
    /\ Transcript.messages[5].Content = GeneratedPrefix \o imagePathAt(now)

\* the positions of raw that hold something other than a blank
NonBlank(raw) == {k \in 1..Len(raw) : raw[k] # " "}

\* raw from its first to its last non-blank character
TrimmedText(raw) ==
    IF NonBlank(raw) = {} THEN <<>>
    ELSE LET first == CHOOSE k \in NonBlank(raw) : \A m \in NonBlank(raw) : k <= m
             last == CHOOSE k \in NonBlank(raw) : \A m \in NonBlank(raw) : k >= m
         IN  SubSeq(raw, first, last)

ExitWords == {<<"e", "x", "i", "t">>, <<"q", "u", "i", "t">>}

\* C11: a line whose trimmed text is exactly "exit" or "quit" ends the loop
\* and appends nothing; any other line with a non-empty trimmed text is
\* appended as one user message whose content is the trimmed text.
C11_ExitWordsEndTheLoop ==
    [][(pc = "read" /\ scanned'.kind = "line") =>
          LET text == TrimmedText(scanned'.text)
          IN  /\ text \in ExitWords =>
                    /\ pc' = "final"
                    /\ conv' = conv
              /\ (text # <<>> /\ text \notin ExitWords) =>
                    /\ pc' \in {"saveUser", "image"}
                    /\ Len(conv'.Messages) = Len(conv.Messages) + 1
                    /\ IsPrefix(conv.Messages, conv'.Messages)
                    /\ conv'.Messages[Len(conv'.Messages)].Role = "user"
                    /\ conv'.Messages[Len(conv'.Messages)].Content = text]_vars

\* " Exit " and "exit Visualiser a cat" were taken as user turns, " exit "
\* ended the loop
C11_Witness ==
    /\ Len(accepted) = 2
    /\ accepted[1] = <<"E", "x", "i", "t">>
    /\ IsPrefix(<<"e", "x", "i", "t", " ">>, accepted[2])
    /\ scanned = [kind |-> "line", text |-> <<" ", "e", "x", "i", "t", " ">>]
    /\ pc = "final"
    /\ Cardinality({i \in 1..Len(conv.Messages) : conv.Messages[i].Role = "user"}) = 2

\* C12: a line that is empty or holds only blanks changes nothing: no message
\* is appended, no gateway is called, nothing is saved, the transcript file
\* is untouched, and the loop goes on to read the next line.
C12_BlankLineChangesNothing ==
    [][(pc = "read" /\ scanned'.kind = "line" /\ NonBlank(scanned'.text) = {}) =>
          /\ conv' = conv
          /\ accepted' = accepted
          /\ files' = files
          /\ saveCount' = saveCount
          /\ lastSave' = lastSave
          /\ lastCall' = lastCall
          /\ history' = history
          /\ now' = now
          /\ exitCode' = exitCode
          /\ pc' = "read"]_vars

\* a line of blanks was read in the middle of a session with a saved turn
C12_Witness ==
    /\ pc = "read"
    /\ scanned = [kind |-> "line", text |-> <<" ", " ">>]
    /\ Len(conv.Messages) >= 3
    /\ HasTranscript
    /\ lastCall.count = 1

GatewayFailures == {"error", "noChoices", "noData", "badBase64", "writeFailed"}

\* the gateway the line just accepted has to go to
RouteOf(line) == IF MentionsKeyword(line) THEN "image" ELSE "completion"

\* C13: an accepted line gets at most one gateway call: the Image Gateway
\* exactly when the line mentions the keyword in any letter-case, the
\* Completion Gateway otherwise, whatever the earlier messages hold; after a
\* failed call no gateway is called before a new line is read.
C13_OneGatewayCallPerLine ==
    /\ [][lastCall' # lastCall =>
            \/ lastCall' = NoCall /\ pc = "read" /\ Len(accepted') = Len(accepted) + 1
            \/ /\ lastCall = NoCall
               /\ lastCall'.count = 1
               /\ accepted' = accepted /\ accepted # <<>>
               /\ lastCall'.gateway = RouteOf(accepted[Len(accepted)])]_vars
    /\ [](/\ lastCall.count <= 1
          /\ lastCall.result \in GatewayFailures => pc \in {"read", "final", "done"}
          /\ pc \in {"saveUser", "complete", "image"} => lastCall = NoCall)

\* the Completion Gateway was called for a plain line although an earlier
\* assistant message mentions the keyword
C13_Witness ==
    /\ lastCall.gateway = "completion"
    /\ lastCall.count = 1
    /\ \E i \in 1..(Len(lastCall.seen) - 1) :
          /\ lastCall.seen[i].Role = "assistant"
          /\ MentionsKeyword(lastCall.seen[i].Content)
    /\ ~MentionsKeyword(accepted[Len(accepted)])

\* images/img_<unix-seconds>.png
ImagePathText(t) ==
    <<"i", "m", "a", "g", "e", "s", "/", "i", "m", "g", "_">> \o Itoa(t)
        \o <<".", "p", "n", "g">>

GeneratedLabel ==
    <<"G", "e", "n", "e", "r", "a", "t", "e", "d", " ", "i", "m", "a", "g", "e", ":", " ">>

\* a successful image turn appends one assistant message after the user
\* message that triggered it, its content being label followed by the path
\* of the file just written, and the save that ends the turn writes both
ImageTurnRecords(label) ==
    /\ (pc = "image" /\ lastCall'.result = "ok") =>
          LET n == Len(conv.Messages)
              path == ImagePathText(now)
          IN  /\ Len(conv'.Messages) = n + 1
              /\ IsPrefix(conv.Messages, conv'.Messages)
              /\ conv.Messages[n].Role = "user"
              /\ conv.Messages[n].Content = accepted[Len(accepted)]
              /\ MentionsKeyword(conv.Messages[n].Content)
              /\ conv'.Messages[n + 1].Role = "assistant"
              /\ conv'.Messages[n + 1].Content = label \o path
              /\ path \in DOMAIN files'
              /\ files'[path] = ImageFile
              /\ pc' = "saveImage"
    /\ pc = "saveImage" =>
          LET n == Len(conv.Messages)
          IN  /\ conv' = conv
              /\ lastSave'.messages = conv.Messages
              /\ lastSave'.result = "ok" =>
                    /\ files'[getFilePath(conv)].complete
                    /\ files'[getFilePath(conv)].messages = conv.Messages
                    /\ files'[getFilePath(conv)].messages[n - 1].Role = "user"
                    /\ files'[getFilePath(conv)].messages[n].Role = "assistant"

\* C14 as stated: the content of the assistant message of an image turn is
\* the path of the image file.
C14_ContentIsThePath == [][ImageTurnRecords(<<>>)]_vars

\* C14: the content of the assistant message of an image turn is the text
\* "Generated image: " followed by the path of the image file
\* (images/img_<unix-seconds>.png); it is the one message appended, right
\* after the triggering user message, and the save ending the turn writes both.
C14_ContentIsLabelAndPath == [][ImageTurnRecords(GeneratedLabel)]_vars

\* an image turn has been saved: the file ends with the trigger and the label
C14_Witness ==
    /\ pc = "read"
    /\ lastCall.gateway = "image" /\ lastCall.result = "ok"
    /\ lastSave.at = "saveImage" /\ lastSave.result = "ok"
    /\ HasTranscript
    /\ Transcript.messages = conv.Messages
    /\ IsPrefix(GeneratedLabel, conv.Messages[Len(conv.Messages)].Content)
    /\ ImagePathText(now) \in DOMAIN files

StartupFailures == {"noKey", "chatsDirFailed", "imagesDirFailed"}

\* the process reported a startup failure
StartupFailed == \E i \in 1..Len(out) : out[i].tag \in StartupFailures

\* C15: when the credential is absent or one of the two directories cannot
\* be created, the process exits non-zero with no conversation created, no
\* line read, no gateway called and no file written; it takes no step after.
C15_StartupFailureExitsEarly ==
    /\ [](StartupFailed =>
            /\ pc = "done"
            /\ exitCode = 1
            /\ conv = NoConversation
            /\ scanned = NoInput
            /\ accepted = <<>>
            /\ lastCall = NoCall
            /\ lastSave = NoSave
            /\ saveCount = 0
            /\ files = <<>>)
    /\ [][pc = "start" =>
            \/ pc' = "done" /\ StartupFailed'
            \/ pc' = "read" /\ conv' # NoConversation /\ exitCode' = -1]_vars

\* the images directory could not be created
C15_Witness ==
    /\ pc = "done"
    /\ out = <<Say("imagesDirFailed", <<>>)>>
    /\ exitCode = 1

\* C16: when every save and gateway call returns and the input comes to end
\* or to deliver an exit word, the session terminates; once the loop is left
\* no message is appended and no gateway is called.
C16_SessionTerminates ==
    /\ <>(pc = "done")
    /\ [][(pc = "final" \/ pc = "done") =>
              (conv' = conv /\ accepted' = accepted /\ lastCall' = lastCall /\ pc' = "done")]_vars

\* the loop was left after a gateway failure and the process has ended
C16_Witness ==
    /\ pc = "done"
    /\ Len(accepted) = 2
    /\ history.gatewayFailed
    /\ lastSave.at = "final"

\* chats/<id>.xml
TranscriptPathText(id) ==
    <<"c", "h", "a", "t", "s", "/">> \o id \o <<".", "x", "m", "l">>

\* the files under chats/
TranscriptFiles(fs) == {f \in DOMAIN fs : IsPrefix(<<"c", "h", "a", "t", "s", "/">>, f)}

\* C17: the id and createdAt of the conversation are set once and never
\* change; the transcript path is chats/<id>.xml, a function of the id alone;
\* every save, the final one included, writes to that one path, and the path
\* the final save reports is that path.
C17_OneTranscriptPath ==
    /\ [][Started =>
            /\ conv'.ID = conv.ID
            /\ conv'.CreatedAt = conv.CreatedAt
            /\ (saveCount' # saveCount /\ lastSave'.result = "ok") =>
                  /\ TranscriptPathText(conv.ID) \in DOMAIN files'
                  /\ files'[TranscriptPathText(conv.ID)].messages = conv.Messages
                  /\ files'[TranscriptPathText(conv.ID)].id = conv.ID
                  /\ files'[TranscriptPathText(conv.ID)].created_at = conv.CreatedAt]_vars
    /\ [](/\ TranscriptFiles(files) \subseteq {TranscriptPathText(conv.ID)}
          /\ Started => getFilePath(conv) = TranscriptPathText(conv.ID)
          /\ \A i \in 1..Len(out) :
                out[i].tag = "savedTo" => out[i].arg = TranscriptPathText(conv.ID))

\* the session ended a second or more after it began, its third successful
\* save being the final one, and reported the path of its one transcript
C17_Witness ==
    /\ pc = "done"
    /\ saveCount >= 3
    /\ now > conv.CreatedAt
    /\ TranscriptFiles(files) = {TranscriptPathText(conv.ID)}
    /\ Len(files[TranscriptPathText(conv.ID)].messages) >= 4
    /\ out = <<Say("savedTo", TranscriptPathText(conv.ID))>>

CompletionFailures == {"error", "noChoices"}

\* the user messages of msgs that no keyword keeps out of the context
PlainUserMessages(msgs) ==
    SelectSeq(msgs, LAMBDA m : m.Role = "user" /\ ~MentionsKeyword(m.Content))

UserEntries(input) == SelectSeq(input, LAMBDA e : e.role = "user")

\* C18: a user message whose Completion call failed stays in the conversation
\* and every later Completion context holds it, so a context (and the
\* transcript) can hold two user messages in a row.
C18_UnansweredMessageIsResent ==
    /\ [][(lastCall' # lastCall /\ lastCall'.gateway = "completion"
               /\ lastCall'.result \in CompletionFailures) =>
            /\ conv' = conv
            /\ conv.Messages[Len(conv.Messages)].Role = "user"]_vars
    /\ [](lastCall.gateway = "completion" =>
            LET plain == PlainUserMessages(lastCall.seen)
                sent == UserEntries(lastCall.input)
            IN  /\ Len(sent) = Len(plain)
                /\ \A i \in 1..Len(plain) : sent[i].content = plain[i].Content)

\* the first text line got no answer, and the context of the second holds
\* both user messages in a row
C18_Witness ==
    /\ lastCall.gateway = "completion"
    /\ Len(lastCall.input) = 3
    /\ lastCall.input[2].role = "user"
    /\ lastCall.input[3].role = "user"
    /\ Len(conv.Messages) >= 3
    /\ conv.Messages[2].Role = "user"
    /\ conv.Messages[3].Role = "user"
    /\ history.gatewayFailed

\* C19: whenever the Completion Gateway is called its context is not empty,
\* begins with the system message and ends with the user message appended in
\* the current turn.
C19_ContextEndsWithCurrentLine ==
    lastCall.gateway = "completion" =>
        LET n == Len(lastCall.input)
        IN  /\ n >= 2
            /\ lastCall.input[1].role = "system"
            /\ lastCall.input[1].content = systemPrompt
            /\ lastCall.input[n].role = "user"
            /\ lastCall.input[n].content = accepted[Len(accepted)]
            /\ lastCall.seen[Len(lastCall.seen)].Role = "user"
            /\ lastCall.seen[Len(lastCall.seen)].Content = accepted[Len(accepted)]
            /\ Cardinality({i \in 1..Len(lastCall.seen) : lastCall.seen[i].Role = "user"})
                 = Len(accepted)

\* a second text turn whose context holds the first turn and its answer
\* before the current line
C19_Witness ==
    /\ lastCall.gateway = "completion"
    /\ Len(accepted) = 2
    /\ Len(lastCall.input) = 4
    /\ lastCall.input[3].role = "assistant"
    /\ lastCall.input[4].content = accepted[2]

\* C20: a read error ends the loop as the end of the input does: no line is
\* appended and no gateway is called, the error is reported, and the final
\* save is still attempted, its result deciding the exit code.
C20_ReadErrorEndsLikeEndOfInput ==
    /\ [][(pc = "read" /\ scanned'.kind = "readError") =>
            /\ pc' = "final"
            /\ scanErr'
            /\ conv' = conv
            /\ accepted' = accepted
            /\ lastCall' = lastCall
            /\ files' = files]_vars
    /\ [][(pc = "final" /\ scanned.kind = "readError") =>
            /\ pc' = "done"
            /\ conv' = conv
            /\ lastCall' = lastCall
            /\ out'[1] = Say("readError", <<>>)
            /\ saveCount' = saveCount + 1
            /\ lastSave'.at = "final"
            /\ lastSave'.messages = conv.Messages
            /\ lastSave'.result = "ok" =>
                  /\ exitCode' = 0
                  /\ files'[getFilePath(conv)].messages = conv.Messages
                  /\ out'[2] = Say("savedTo", getFilePath(conv))
            /\ lastSave'.result # "ok" =>
                  /\ exitCode' = 1
                  /\ out'[2] = Say("saveError", <<>>)]_vars
    /\ [](scanErr <=> (scanned.kind = "readError"))

\* a read error after an answered turn; the final save wrote the transcript
C20_Witness ==
    /\ pc = "done"
    /\ scanned.kind = "readError"
    /\ exitCode = 0
    /\ Len(conv.Messages) >= 3
    /\ lastSave.at = "final"
    /\ out = <<Say("readError", <<>>), Say("savedTo", getFilePath(conv))>>

====
